---- MODULE Spec2Model ----
(***************************************************************************)
(* A model of safe_camera_trap_tools: compiling folders of camera trap     *)
(* images into a deployment folder (gather_deployment_files followed by    *)
(* create_deployment), the per-folder functions _process_folder and       *)
(* validate_folder, the script process_deployment.py and the two           *)
(* extract_deployment_data functions.                                      *)
(*                                                                         *)
(* Strings are sequences of tokens (a token is a run of characters), so    *)
(* that split, strip, regular-expression search and concatenation are      *)
(* computed rather than assumed.  A path is a sequence of names and a name *)
(* is a string.  Python's None is the empty sequence where a string is     *)
(* expected; a dictionary is a function and `key in dict` is membership of *)
(* its DOMAIN.                                                             *)
(***************************************************************************)
EXTENDS Integers, Sequences, FiniteSets, TLC

(* ------------------------------ bounds -------------------------------- *)

\* The most files a source folder holds.
MaxFiles == 2

(* ------------------------- strings and lists -------------------------- *)

None == <<>>

Range(s) == {s[i] : i \in 1..Len(s)}

\* [f(x) for x in s if Test(x)]
RECURSIVE SelectIdx(_, _)
SelectIdx(s, keep) ==
    IF s = <<>> THEN <<>>
    ELSE LET rest == SelectIdx(Tail(s), {i - 1 : i \in keep \ {1}})
         IN  IF 1 \in keep THEN <<Head(s)>> \o rest ELSE rest

\* len(set(s)) < len(s): some value occurs twice in the list
HasRepeat(s) == \E i, j \in 1..Len(s) : i # j /\ s[i] = s[j]

\* ", ".join(parts) and ",".join(parts) for a list of strings
RECURSIVE Join(_, _)
Join(sep, parts) ==
    IF parts = <<>> THEN <<>>
    ELSE IF Len(parts) = 1 THEN parts[1]
    ELSE parts[1] \o <<sep>> \o Join(sep, Tail(parts))

\* str.lower, token by token
Lower(tok) ==
    CASE tok = ".JPG" -> ".jpg"
      [] tok = ".TXT" -> ".txt"
      [] OTHER -> tok

\* fl.lower().endswith('jpg')
IsJpeg(fl) == Len(fl) > 0 /\ Lower(fl[Len(fl)]) = ".jpg"

\* \d+
Digits == {"1", "2", "3"}

\* whitespace characters, for str.split() and str.strip()
IsSpace(tok) == tok = " "

\* vl.split()[0]: the first whitespace-separated word of a non-blank string
RECURSIVE SplitFirst(_)
SplitFirst(s) ==
    IF s = <<>> THEN <<>>
    ELSE IF IsSpace(Head(s)) THEN <<>>
    ELSE <<Head(s)>> \o SplitFirst(Tail(s))

(* --------------------------- date and time ---------------------------- *)

\* The creation times of the model's images, earliest first.  A
\* datetime.datetime is the index of its row; raw is the EXIF text
\* "YYYY:mm:dd HH:MM:SS", ymd and hms are what strftime("%Y%m%d") and
\* strftime("%H%M%S") print for it, day is its date's ordinal and secs its time of day in seconds.
TimeTable ==
    << [raw |-> <<"2024:01:05", " ", "10:00:00">>, ymd |-> "20240105", hms |-> "100000",
        day |-> 738890, secs |-> 36000],
       [raw |-> <<"2024:01:05", " ", "10:00:07">>, ymd |-> "20240105", hms |-> "100007",
        day |-> 738890, secs |-> 36007],
       [raw |-> <<"2024:01:06", " ", "09:30:00">>, ymd |-> "20240106", hms |-> "093000",
        day |-> 738891, secs |-> 34200] >>

Times == 1..Len(TimeTable)

RawDates == {TimeTable[t].raw : t \in Times}

\* A CreateDate value that is not in the "%Y:%m:%d %H:%M:%S" format.
BadDate == <<"0000:00:00", " ", "00:00:00">>

\* datetime.datetime(1,1,1), returned for a folder without images
EmptyFolderDate == 0

\* datetime.datetime.strptime(raw, '%Y:%m:%d %H:%M:%S'); raises ValueError
\* (here: is not defined) for a raw value outside RawDates
Parses(raw) == raw \in RawDates
Strptime(raw) == CHOOSE t \in Times : TimeTable[t].raw = raw

\* dt.strftime("%Y%m%d_%H%M%S")
StrftimeYmdHms(dt) == <<TimeTable[dt].ymd, "_", TimeTable[dt].hms>>

\* dt.strftime("%Y%m%d"); glibc prints the year 1 of an empty folder's date
\* without zero padding
StrftimeYmd(dt) == IF dt = EmptyFolderDate THEN "10101" ELSE TimeTable[dt].ymd

\* min(dates) for a non-empty list of datetimes
MinDate(dates) == CHOOSE d \in Range(dates) : \A e \in Range(dates) : d <= e
MaxDate(dates) == CHOOSE d \in Range(dates) : \A e \in Range(dates) : d >= e

(* ------------------------------ tag names ----------------------------- *)

CreateDateTag == <<"EXIF", ":", "CreateDate">>
SequenceTag == <<"MakerNotes", ":", "Sequence">>
KeywordsTag == <<"IPTC", ":", "Keywords">>

\* et.get_tags_batch(tags, paths): for each file a dictionary holding the
\* requested tags the file has
GetTagsBatch(tags, exif) ==
    [i \in 1..Len(exif) |->
        [tg \in (DOMAIN exif[i]) \cap tags |-> exif[i][tg]]]

(* ------------------------- file name patterns ------------------------- *)

MinOf(S) == CHOOSE i \in S : \A j \in S : i <= j

\* re.compile('\d+(?= of \d+.jpg)').search(f): the text matched, or None
RegexSeqOfJpg(f) ==
    LET hits == {i \in 1..Len(f) :
                    /\ i + 3 <= Len(f)
                    /\ f[i] \in Digits
                    /\ f[i + 1] = " of "
                    /\ f[i + 2] \in Digits
                    /\ f[i + 3] = ".jpg"}
    IN  IF hits = {} THEN None ELSE <<f[MinOf(hits)]>>

\* re.compile('\d+(?= of \d+)').search(im): the text matched, or None
RegexSeqOf(im) ==
    LET hits == {i \in 1..Len(im) :
                    /\ i + 2 <= Len(im)
                    /\ im[i] \in Digits
                    /\ im[i + 1] = " of "
                    /\ im[i + 2] \in Digits}
    IN  IF hits = {} THEN None ELSE <<im[MinOf(hits)]>>

(* --------------------------- _process_folder -------------------------- *)

\* report_n: how many file names an error message lists
ReportN == 5

JpegFiles(files) == SelectIdx(files, {i \in 1..Len(files) : IsJpeg(files[i])})

\* other_files taken to be empty: files that are not images go unnoticed.
OtherFilesNone(files) == {}

OtherFiles(files) == Range(files) \ Range(JpegFiles(files))

\* [fl for fl, v in zip(files, values) if v is None]
ZipMissing(files, values) ==
    LET n == IF Len(files) < Len(values) THEN Len(files) ELSE Len(values)
    IN  SelectIdx(SubSeq(files, 1, n), {i \in 1..n : values[i] = None})

\* ','.join(tag_missing[0:report_n]), with ", ..." when names are left out
ReportMissing(tag_missing) ==
    LET shown == SubSeq(tag_missing, 1,
                        IF Len(tag_missing) < ReportN THEN Len(tag_missing) ELSE ReportN)
    IN  Join(",", shown) \o (IF ReportN < Len(tag_missing) THEN <<", ...">> ELSE <<>>)

\* sequence: the MakerNotes:Sequence tag, else the number in the file name
FolderSequence(jpeg_files, tag_data) ==
    LET sequence == [i \in 1..Len(tag_data) |->
                        IF SequenceTag \in DOMAIN tag_data[i]
                        THEN tag_data[i][SequenceTag] ELSE None]
        fseq == [i \in 1..Len(jpeg_files) |-> RegexSeqOfJpg(jpeg_files[i])]
    IN  IF None \in Range(sequence)
        THEN [i \in 1..Len(sequence) |->
                 IF sequence[i] # None THEN sequence[i] ELSE fseq[i]]
        ELSE sequence

\* new_name: location + "_" + dt.strftime("%Y%m%d_%H%M%S") + seq + ".jpg"
NewName(location, dt, seq) ==
    location \o <<"_">> \o StrftimeYmdHms(dt) \o seq \o <<".jpg">>

NoResult == [raised |-> "none", n_missing |-> 0, message |-> <<>>,
             files |-> <<>>, min_date |-> EmptyFolderDate]

\* _process_folder(image_dir, location, et), where files is the directory's
\* listing and exif holds the tags of its JPEG files.  The result is the
\* exception raised, or the (source, destination) pairs and the earliest date.
ProcessFolder(image_dir, location, files, exif) ==
    LET jpeg_files == JpegFiles(files)
        paths == [i \in 1..Len(jpeg_files) |-> Append(image_dir, jpeg_files[i])]
        tag_data == GetTagsBatch({CreateDateTag, SequenceTag}, exif)
        sequence == FolderSequence(jpeg_files, tag_data)
        seq_missing == ZipMissing(files, sequence)
        create_date == [i \in 1..Len(tag_data) |->
                           IF CreateDateTag \in DOMAIN tag_data[i]
                           THEN tag_data[i][CreateDateTag] ELSE None]
        date_missing == ZipMissing(files, create_date)
        dates == [i \in 1..Len(create_date) |-> Strptime(create_date[i])]
    IN  IF Len(jpeg_files) = 0 THEN NoResult
        ELSE IF None \in Range(sequence) /\ Len(seq_missing) > 0
        THEN [NoResult EXCEPT !.raised = "RuntimeError: files missing sequence number",
                              !.n_missing = Len(seq_missing),
                              !.message = ReportMissing(seq_missing)]
        ELSE IF None \in Range(create_date) /\ Len(date_missing) > 0
        THEN [NoResult EXCEPT !.raised = "RuntimeError: files missing creation date tag",
                              !.n_missing = Len(date_missing),
                              !.message = ReportMissing(date_missing)]
        ELSE IF \E i \in 1..Len(create_date) : ~Parses(create_date[i])
        THEN [NoResult EXCEPT !.raised = "ValueError: time data does not match format"]
        ELSE [NoResult EXCEPT
                 !.files = [i \in 1..Len(paths) |->
                               [src |-> paths[i],
                                dst |-> <<NewName(location, dates[i], sequence[i])>>]],
                 !.min_date = MinDate(dates)]

(* -------------------------- _convert_keywords ------------------------- *)

\* A Keywords value is a single string or a list of strings.
KwStr(s) == <<"str", s>>
KwList(l) == <<"list", l>>

\* kw.split(':')
RECURSIVE SplitColon(_)
SplitColon(s) ==
    IF \A i \in 1..Len(s) : s[i] # ":" THEN <<s>>
    ELSE LET k == MinOf({i \in 1..Len(s) : s[i] = ":"})
         IN  <<SubSeq(s, 1, k - 1)>> \o SplitColon(SubSeq(s, k + 1, Len(s)))

\* s.strip()
RECURSIVE StripLeft(_)
StripLeft(s) ==
    IF s # <<>> /\ IsSpace(Head(s)) THEN StripLeft(Tail(s)) ELSE s

RECURSIVE StripRight(_)
StripRight(s) ==
    IF s # <<>> /\ IsSpace(s[Len(s)]) THEN StripRight(SubSeq(s, 1, Len(s) - 1)) ELSE s

Strip(s) == StripRight(StripLeft(s))

\* The order of Python's string comparison on the tag numbers of the model.
TagNumberOrder == <<"15", "16", "24", "9">>

TokenRank(tok) ==
    IF \E i \in 1..Len(TagNumberOrder) : TagNumberOrder[i] = tok
    THEN CHOOSE i \in 1..Len(TagNumberOrder) : TagNumberOrder[i] = tok
    ELSE 0

\* a <= b for two strings
RECURSIVE StrLeq(_, _)
StrLeq(a, b) ==
    IF a = <<>> THEN TRUE
    ELSE IF b = <<>> THEN FALSE
    ELSE IF TokenRank(Head(a)) # TokenRank(Head(b))
         THEN TokenRank(Head(a)) < TokenRank(Head(b))
    ELSE StrLeq(Tail(a), Tail(b))

\* kw_list.sort(key=lambda x: x[0]): a stable sort
RECURSIVE InsertByKey(_, _)
InsertByKey(x, sorted) ==
    IF sorted = <<>> THEN <<x>>
    ELSE IF StrLeq(Head(sorted)[1], x[1]) THEN <<Head(sorted)>> \o InsertByKey(x, Tail(sorted))
    ELSE <<x>> \o sorted

RECURSIVE SortByKey(_)
SortByKey(l) ==
    IF l = <<>> THEN <<>>
    ELSE InsertByKey(l[Len(l)], SortByKey(SubSeq(l, 1, Len(l) - 1)))

\* groupby(kw_list, key=lambda x: x[0]): the runs of equal keys
RECURSIVE GroupBy(_)
GroupBy(l) ==
    IF l = <<>> THEN <<>>
    ELSE LET rest == GroupBy(Tail(l))
         IN  IF rest # <<>> /\ rest[1][1][1] = Head(l)[1]
             THEN <<<<Head(l)>> \o rest[1]>> \o Tail(rest)
             ELSE <<<<Head(l)>>>> \o rest

TagKey(number) == <<"Tag_">> \o number

\* _convert_keywords(keywords): the exception raised, or the dictionary
\* {'Tag_<number>': 'value, value'}; a later group with the same key
\* replaces an earlier one
ConvertKeywords(keywords) ==
    IF keywords = None THEN [raised |-> "none", dict |-> <<>>]
    ELSE LET kws == IF keywords[1] = "str" THEN <<keywords[2]>> ELSE keywords[2]
             kw_list == SortByKey([i \in 1..Len(kws) |-> SplitColon(kws[i])])
             kw_groups == GroupBy(kw_list)
             last(key) == CHOOSE g \in 1..Len(kw_groups) :
                             /\ kw_groups[g][1][1] = key
                             /\ \A h \in g + 1..Len(kw_groups) : kw_groups[h][1][1] # key
         IN  IF \E i \in 1..Len(kw_list) : Len(kw_list[i]) < 2
             THEN [raised |-> "IndexError", dict |-> <<>>]
             ELSE [raised |-> "none",
                   dict |-> [k \in {TagKey(kw_list[i][1]) : i \in 1..Len(kw_list)} |->
                                LET vals == kw_groups[last(SubSeq(k, 2, Len(k)))]
                                IN  Join(", ", [j \in 1..Len(vals) |-> Strip(vals[j][2])])]]

(* ---------------------------- validate_folder ------------------------- *)

\* target_tags, in the order the code lists them
TargetTags ==
    << <<"EXIF", ":", "Make">>, <<"EXIF", ":", "Model">>,
       <<"MakerNotes", ":", "SerialNumber">>, <<"Calib">>,
       <<"MakerNotes", ":", "FirmwareDate">>, <<"File", ":", "ImageHeight">>,
       <<"File", ":", "ImageWidth">>, <<"File", ":", "FileName">>,
       CreateDateTag, <<"EXIF", ":", "ExposureTime">>, <<"EXIF", ":", "ISO">>,
       <<"EXIF", ":", "Flash">>, <<"MakerNotes", ":", "InfraredIlluminator">>,
       <<"MakerNotes", ":", "MotionSensitivity">>,
       <<"MakerNotes", ":", "AmbientTemperature">>,
       <<"EXIF", ":", "SceneCaptureType">>, SequenceTag,
       <<"MakerNotes", ":", "TriggerMode">>, KeywordsTag >>

\* camera_fields
CameraFields ==
    << <<"Make">>, <<"Model">>, <<"SerialNumber">>, <<"FirmwareDate">>,
       <<"ImageHeight">>, <<"ImageWidth">> >>

Letters == {"EXIF", "MakerNotes", "File", "IPTC", "Calib", "Make", "Model",
            "SerialNumber", "FirmwareDate", "ImageHeight", "ImageWidth", "FileName",
            "CreateDate", "ExposureTime", "ISO", "Flash", "InfraredIlluminator",
            "MotionSensitivity", "AmbientTemperature", "SceneCaptureType",
            "Sequence", "TriggerMode", "Keywords"}

\* The group cut off at a fixed place, whether or not a colon is there.
SubGroupFixedWidth(vl) == IF Len(vl) > 1 THEN SubSeq(vl, 3, Len(vl)) ELSE <<>>

\* re.compile('[A-z]+:').sub('', vl): every run of letters followed by a
\* colon is removed
RECURSIVE SubGroup(_)
SubGroup(vl) ==
    IF vl = <<>> THEN <<>>
    ELSE IF Len(vl) >= 2 /\ vl[1] \in Letters /\ vl[2] = ":"
         THEN SubGroup(SubSeq(vl, 3, Len(vl)))
    ELSE <<Head(vl)>> \o SubGroup(Tail(vl))

\* {short_key: entry.get(long_key, None) for long_key, short_key in tags}
\* (a later tag with the same short name replaces an earlier one)
SimplifyEntry(entry, tags) ==
    LET short_keys == [i \in 1..Len(tags) |-> SubGroup(tags[i])]
    IN  [short \in Range(short_keys) |->
            LET last == CHOOSE i \in 1..Len(tags) :
                            /\ short_keys[i] = short
                            /\ \A j \in i + 1..Len(tags) : short_keys[j] # short
            IN  IF tags[last] \in DOMAIN entry THEN entry[tags[last]] ELSE None]

\* {k: [dic[k] for dic in exif] for k in exif[0]}
FieldLists(rows) ==
    [k \in DOMAIN rows[1] |-> [i \in 1..Len(rows) |-> rows[i][k]]]

LocationKey == TagKey(<<"15">>)

\* (end_dt - start_dt).days + 1; a difference of less than 24 hours is 0 days
NDays(start_dt, end_dt) ==
    LET whole == TimeTable[end_dt].day - TimeTable[start_dt].day
    IN  (IF whole > 0 /\ TimeTable[end_dt].secs < TimeTable[start_dt].secs
         THEN whole - 1 ELSE whole) + 1

\* The folder level checks of validate_folder (step 3 and step 4a): the
\* issues they add and folder_data.  fields is exif_fields after the keyword
\* tags have been moved into their own fields.
CameraData(fields) ==
    [f \in Range(CameraFields) |-> Range(fields[f])]

CameraIssues(fields) ==
    (IF \E f \in Range(CameraFields) : Cardinality(CameraData(fields)[f]) > 1
     THEN <<"camera_data_inconsistent">> ELSE <<>>)
    \o (IF \E f \in Range(CameraFields) : None \in CameraData(fields)[f]
        THEN <<"camera_data_incomplete">> ELSE <<>>)

LocationIssues(fields) ==
    IF LocationKey \notin DOMAIN fields THEN <<"no_locations">>
    ELSE (IF None \in Range(fields[LocationKey])
          THEN <<"missing_locations">> ELSE <<>>)
         \o (IF Cardinality(Range(fields[LocationKey]) \ {None}) > 1
             THEN <<"locations_inconsistent">> ELSE <<>>)

DateIssues(fields) ==
    LET dates == fields[<<"CreateDate">>]
    IN  IF \A i \in 1..Len(dates) : dates[i] = None THEN <<"no_dates">>
        ELSE IF \E i \in 1..Len(dates) : dates[i] = None THEN <<"missing_dates">>
        ELSE <<>>

\* image_dates without the None entries, parsed
OnlyDates(fields) ==
    LET dates == fields[<<"CreateDate">>]
        have == SelectIdx(dates, {i \in 1..Len(dates) : dates[i] # None})
    IN  [i \in 1..Len(have) |-> Strptime(have[i])]

\* Step 4b: the sequence of each image, from the Sequence tag ('n N') or
\* else from the file name.  The comprehension that reads the matches names
\* a variable f that validate_folder never binds, so evaluating it for a
\* file name that matches raises NameError.
ValidateSequence(images, seq_field) ==
    LET exif_sequence == [i \in 1..Len(seq_field) |->
                             IF seq_field[i] = None THEN None
                             ELSE SplitFirst(seq_field[i])]
        searched == [i \in 1..Len(images) |-> RegexSeqOf(images[i])]
        look == None \in Range(seq_field)
    IN  IF look /\ \E i \in 1..Len(searched) : searched[i] # None
        THEN [raised |-> "NameError", sequence |-> <<>>]
        ELSE [raised |-> "none", sequence |-> exif_sequence]

NoValidation ==
    [raised |-> "none", issues |-> <<>>, folder_data |-> <<>>, image_data |-> <<>>,
     other_files |-> {}, keyword_tags |-> {}, et_started |-> FALSE,
     et_terminated |-> FALSE]

\* validate_folder(image_dir), where files is the directory's listing and
\* exif holds the tags of its JPEG files.  The result is the exception
\* raised or the dictionary returned, and what became of the ExifTool
\* instance.
ValidateFolder(files, exif) ==
    LET images == JpegFiles(files)
        other_files == OtherFiles(files)
        issues1 == IF other_files # {} THEN <<"extra_files">> ELSE <<>>
        batch == GetTagsBatch(Range(TargetTags), exif)
        rows == [i \in 1..Len(batch) |-> SimplifyEntry(batch[i], TargetTags)]
        n_exif == Len(rows)
        fields0 == FieldLists(rows)
        keywords == fields0[<<"Keywords">>]
        no_keywords == \A i \in 1..n_exif : keywords[i] = None
        issues2 == issues1
                   \o (IF no_keywords THEN <<"no_keywords">>
                       ELSE IF None \in Range(keywords) THEN <<"missing_keywords">>
                       ELSE <<>>)
        converted == [i \in 1..n_exif |-> ConvertKeywords(keywords[i])]
        keyword_tags == UNION {DOMAIN converted[i].dict : i \in 1..n_exif}
        fields1 == [k \in (DOMAIN fields0 \ {<<"Keywords">>}) \cup keyword_tags |->
                       IF k \in keyword_tags
                       THEN [i \in 1..n_exif |->
                                IF k \in DOMAIN converted[i].dict
                                THEN converted[i].dict[k] ELSE None]
                       ELSE fields0[k]]
        issues3 == issues2 \o CameraIssues(fields1) \o LocationIssues(fields1)
                   \o DateIssues(fields1)
        has_dates == DateIssues(fields1) # <<"no_dates">>
        only_dates == OnlyDates(fields1)
        resolved == ValidateSequence(images, fields1[<<"Sequence">>])
        issues4 == issues3
                   \o (IF None \in Range(resolved.sequence)
                       THEN <<"missing_sequence">> ELSE <<>>)
        started == [NoValidation EXCEPT !.et_started = TRUE, !.et_terminated = TRUE]
    IN  IF Len(images) = 0
        THEN [NoValidation EXCEPT !.issues = issues1 \o <<"no_images">>]
        ELSE IF no_keywords
        THEN [started EXCEPT !.raised = "AttributeError"]
        ELSE IF \E i \in 1..n_exif : converted[i].raised # "none"
        THEN [started EXCEPT !.raised = "IndexError"]
        ELSE IF has_dates /\ \E i \in 1..n_exif :
                    /\ fields1[<<"CreateDate">>][i] # None
                    /\ ~Parses(fields1[<<"CreateDate">>][i])
        THEN [started EXCEPT !.raised = "ValueError"]
        ELSE IF resolved.raised # "none"
        THEN [started EXCEPT !.raised = resolved.raised]
        ELSE [started EXCEPT
                 !.issues = issues4,
                 !.folder_data =
                     CameraData(fields1)
                     @@ (IF LocationKey \in DOMAIN fields1
                         THEN [k \in {<<"location">>} |->
                                  Range(fields1[LocationKey]) \ {None}]
                         ELSE <<>>)
                     @@ (IF has_dates
                         THEN [k \in {<<"start">>, <<"end">>, <<"n_days">>} |->
                                  CASE k = <<"start">> -> MinDate(only_dates)
                                    [] k = <<"end">> -> MaxDate(only_dates)
                                    [] OTHER -> NDays(MinDate(only_dates),
                                                      MaxDate(only_dates))]
                         ELSE <<>>)
                     @@ [k \in {<<"n_images">>} |-> n_exif],
                 !.image_data =
                     [k \in DOMAIN fields1 \cup {<<"file">>} |->
                         IF k = <<"file">> THEN images
                         ELSE IF k = <<"Sequence">> THEN resolved.sequence
                         ELSE fields1[k]],
                 !.other_files = other_files,
                 !.keyword_tags = keyword_tags]

(* ------------------------------ the world ----------------------------- *)

\* The file names a source folder can hold, in the order the directory is
\* listed: a plain name, names with the burst pattern "<n> of <m>" (one of
\* them with an upper-case extension), and a file that is no image.
SourceNames ==
    << <<"IMG_0001", ".jpg">>,
       <<"IMG ", "2", " of ", "3", ".jpg">>,
       <<"IMG ", "3", " of ", "3", ".JPG">>,
       <<"notes", ".txt">> >>

\* Directories are paths of one name.
Cam1 == << <<"cam1">> >>
Cam2 == << <<"cam2">> >>
CalibDir == << <<"cam1 CALIB">> >>
AbsentDir == << <<"absent">> >>
OutputRoot == << <<"deployments">> >>
NoRoot == << <<"nowhere">> >>

SourceDirs == {Cam1, Cam2, CalibDir}

\* The location given on the command line: a gazetteer code, or any other
\* text, such as one that begins with the absolute path of the directory
\* cam1 ("/cam1/" is one token).
Location == <<"SITE-A">>
AbsLocation == <<"/cam1/", "IMG">>
Locations == {Location, AbsLocation}

\* What an image file holds: its picture (named by the path it was first
\* stored at) and the IPTC:Keywords an annotator embedded in it, or None.
ImageData(origin, keywords) == [origin |-> origin, keywords |-> keywords]

\* Nodes of the file system: a directory, or a file with its image data and
\* its XMP-xmpMM:PreservedFileName tag.
DirNode == [kind |-> "dir", data |-> <<>>, preserved |-> <<>>]
FileNode(data, preserved) == [kind |-> "file", data |-> data, preserved |-> preserved]

\* os.path.exists(path), os.path.isdir(path)
Exists(f, path) == path \in DOMAIN f
IsDir(f, path) == path \in DOMAIN f /\ f[path].kind = "dir"

\* os.path.join(a, b), where b is a relative path or a text that begins
\* with the absolute path of cam1: an absolute b replaces a
IsAbs(b) == b # <<>> /\ b[1] # <<>> /\ b[1][1] = "/cam1/"
PathJoin(a, b) ==
    IF IsAbs(b) THEN Append(Cam1, Tail(b[1])) \o Tail(b) ELSE a \o b

\* os.path.dirname(path)
Parent(path) == SubSeq(path, 1, Len(path) - 1)

\* next(os.walk(image_dir))[2]: the files of a directory, not its
\* subdirectories
ListFiles(f, dir) ==
    SelectIdx(SourceNames,
              {i \in 1..Len(SourceNames) :
                  /\ Append(dir, SourceNames[i]) \in DOMAIN f
                  /\ f[Append(dir, SourceNames[i])].kind = "file"})

\* The tags an image can carry.
SequenceValues == {<<"1", " ", "3">>, <<"2", " ", "3">>}
KeywordValues == {KwStr(<<"15", ":", " ", "SITE-A">>)}
DateValues == {TimeTable[1].raw, TimeTable[3].raw}

TagDict(date, sequence, keywords) ==
    [tg \in (IF date = None THEN {} ELSE {CreateDateTag})
            \cup (IF sequence = None THEN {} ELSE {SequenceTag})
            \cup (IF keywords = None THEN {} ELSE {KeywordsTag}) |->
        CASE tg = CreateDateTag -> date
          [] tg = SequenceTag -> sequence
          [] OTHER -> keywords]

ImageTags ==
    {TagDict(d, s, k) : d \in DateValues \cup {BadDate, None},
                        s \in SequenceValues \cup {None},
                        k \in KeywordValues \cup {None}}

\* What the metadata reader finds in the images gathered into a deployment:
\* a creation date or none, a sequence or none.
GatherTags ==
    {TagDict(d, s, None) : d \in DateValues \cup {None},
                           s \in {<<"1", " ", "3">>, None}}

(* ------------------------------- state -------------------------------- *)

VARIABLES
    args,       \* the arguments of the run: image_dirs, calib_dirs, location, output_root
    fs,         \* the file system: path -> node
    fs0,        \* the file system when the run began
    pc,         \* where the run is
    err,        \* the exception that ended the run, or "none"
    et,         \* the ExifTool instance of each function: unborn, running, terminated
    this,       \* gather_deployment_files: index of this_dir in input_dirs
    dates,      \* gather_deployment_files: dates
    files,      \* gather_deployment_files: files
    gathered,   \* the dictionary gather_deployment_files returned
    outdir,     \* create_deployment: outdir
    idx,        \* create_deployment: idx of the copy loop, from 1
    log,        \* the calls made to the file system and to ExifTool, in order
    scanned,    \* what each call of _process_folder read and what it reported
    folder,     \* the folder given to _process_folder and validate_folder
    processed,  \* what _process_folder did with it
    validated,  \* what validate_folder did with it
    extracted,  \* what each call of extract_deployment_data wrote or raised
    converted   \* the keywords given to _convert_keywords and what it returned

vars == <<args, fs, fs0, pc, err, et, this, dates, files, gathered, outdir, idx, log,
          scanned, folder, processed, validated, extracted, converted>>

runVars == <<args, fs, fs0, pc, err, et, this, dates, files, gathered, outdir, idx, log,
            scanned>>

folderVars == <<folder, processed, validated, extracted, converted>>

NoGathered == [files |-> <<>>, date |-> EmptyFolderDate, location |-> <<>>,
               calib |-> FALSE, returned |-> FALSE]

Event(op, path, src) == [op |-> op, path |-> path, src |-> src]

\* {location}_{date:%Y%m%d}
DeploymentName(location, date) == location \o <<"_", StrftimeYmd(date)>>

(* ------------------------- initial conditions ------------------------- *)

\* The lists of image directories and of calibration directories a run is
\* given.  The command line passes None for the calibration directories
\* when no -c option is used; a caller of the function passes a list.
ImageDirLists == {<<>>, <<Cam1>>, <<Cam1, Cam2>>, <<Cam1, AbsentDir>>, <<Cam1, Cam1>>}

CalibDirArgs ==
    {[none |-> TRUE, dirs |-> <<>>], [none |-> FALSE, dirs |-> <<>>],
     [none |-> FALSE, dirs |-> <<CalibDir>>], [none |-> FALSE, dirs |-> <<Cam1>>]}

\* A deployment compiled earlier, with an image in it.
OldImage == <<"SITE-A_20230101_120000_1", ".jpg">>

OldDeployment(t) == Append(OutputRoot, DeploymentName(Location, t))

\* The location keywords an annotator put into the images of a folder.
SiteKeywords == {KwStr(<<"15", ":", " ", "SITE-A">>), KwStr(<<"15", ":", " ", "SITE-B">>)}

\* no folder is annotated
Unannotated == [d \in SourceDirs |-> None]

\* The file system before the run: each source directory holds the first
\* count[d] files of SourceNames, annotated with the keywords site[d]; the
\* output root exists; old is the set of dates for which a deployment
\* directory of this location is already there.
WorldFs(count, old, site) ==
    LET dirs == SourceDirs \cup {OutputRoot} \cup {OldDeployment(t) : t \in old}
        srcs == {Append(d, SourceNames[i]) : d \in SourceDirs, i \in 1..MaxFiles}
        have == {p \in srcs : \E d \in SourceDirs : \E i \in 1..count[d] :
                                  p = Append(d, SourceNames[i])}
        olds == {Append(OldDeployment(t), OldImage) : t \in old}
    IN  [p \in dirs \cup have \cup olds |->
            IF p \in dirs THEN DirNode
            ELSE IF p \in olds THEN FileNode(ImageData(p, None), None)
            ELSE FileNode(ImageData(p, site[Parent(p)]), None)]

NoFolder == [files |-> <<>>, exif |-> <<>>]

NotCalled == [called |-> FALSE]

FolderIdle ==
    /\ folder = NoFolder
    /\ processed = NotCalled
    /\ validated = NotCalled
    /\ extracted = <<>>
    /\ converted = NotCalled

\* gather_deployment_files is about to be called
RunStart ==
    /\ fs0 = fs
    /\ pc = "gather"
    /\ err = "none"
    /\ et = [gather |-> "unborn", create |-> "unborn"]
    /\ this = 1
    /\ dates = <<>>
    /\ files = <<>>
    /\ gathered = NoGathered
    /\ outdir = <<>>
    /\ idx = 1
    /\ log = <<>>
    /\ scanned = <<>>
    /\ FolderIdle

Init ==
    /\ \E image_dirs \in ImageDirLists, calib \in CalibDirArgs,
          root \in {OutputRoot, NoRoot}, location \in Locations :
          args = [image_dirs |-> image_dirs, calib_dirs |-> calib.dirs,
                  calib_none |-> calib.none, location |-> location,
                  output_root |-> root]
    /\ \E count \in [SourceDirs -> 0..MaxFiles], old \in {{}, {1}, {3}} :
          \* what a directory the run is not given holds makes no difference
          /\ \A d \in SourceDirs :
                 d \notin Range(args.image_dirs \o args.calib_dirs) => count[d] = 0
          /\ args.output_root # OutputRoot => old = {}
          \* a location that is an absolute path goes its own way whatever
          \* the output root is and holds
          /\ args.location = AbsLocation => args.output_root = OutputRoot /\ old = {}
          \* the folder of calibration images is the smaller one
          /\ count[CalibDir] < MaxFiles
          /\ fs = WorldFs(count, old, Unannotated)
    /\ RunStart

(* ----------------------- gather_deployment_files ---------------------- *)

InputDirs == args.image_dirs \o args.calib_dirs

Raise(e) == pc' = "raised" /\ err' = e

\* os.path.join('CALIB', dest) for the files of a calibration directory
CalibPrefix(these_files) ==
    [i \in 1..Len(these_files) |->
        [src |-> these_files[i].src,
         dst |-> PathJoin(<< <<"CALIB">> >>, these_files[i].dst)]]

\* Lines 389-392 with the comparison never true: no collision is noticed.
HasDuplicatesNever(all_files) == FALSE

\* The check for file name collisions across the whole set:
\* len(all_new_file_names) > len(set(all_new_file_names))
HasDuplicates(all_files) ==
    HasRepeat([i \in 1..Len(all_files) |-> all_files[i].dst])

\* Lines 365-372: input_dirs is built, every directory is tested with
\* os.path.isdir, and a directory named twice is refused.
GatherCheckDirs ==
    /\ pc = "gather"
    /\ IF args.calib_none
       THEN Raise("TypeError: can only concatenate list") /\ log' = log
       ELSE /\ log' = log \o [i \in 1..Len(InputDirs) |->
                                 Event("isdir", InputDirs[i], <<>>)]
            /\ IF \E i \in 1..Len(InputDirs) : ~IsDir(fs, InputDirs[i])
               THEN Raise("IOError: Directories not found")
               ELSE IF HasRepeat(InputDirs)
               THEN Raise("IOError: Same folder in both lists")
               ELSE pc' = "gather_et" /\ err' = err
    /\ UNCHANGED <<args, scanned, fs, fs0, et, this, dates, files, gathered, outdir, idx>>
    /\ UNCHANGED folderVars

\* Lines 374-376: the ExifTool instance of gather_deployment_files.
GatherStartEt ==
    /\ pc = "gather_et"
    /\ et' = [et EXCEPT !.gather = "running"]
    /\ log' = Append(log, Event("et.start", <<>>, <<>>))
    /\ pc' = "scan"
    /\ UNCHANGED <<args, scanned, fs, fs0, err, this, dates, files, gathered, outdir, idx>>
    /\ UNCHANGED folderVars

\* Line 383 with the exception of _process_folder caught and the loop
\* carried on with the next directory.
FolderRaisedCarryOn(res) ==
    /\ err' = res.raised
    /\ this' = this + 1
    /\ UNCHANGED <<pc, dates, files>>

\* Line 383: nothing catches an exception of _process_folder, so it ends
\* gather_deployment_files and the run.
FolderRaised(res) ==
    /\ Raise(res.raised)
    /\ UNCHANGED <<this, dates, files>>

\* what the calls of _process_folder add to the log
ScanEvents(this_dir, listed) ==
    <<Event("listdir", this_dir, <<>>)>>
    \o (IF Len(JpegFiles(listed)) > 0
        THEN <<Event("get_tags_batch", this_dir, <<>>)>> ELSE <<>>)

\* The tags ExifTool finds in the images of a folder: the creation date and
\* sequence the camera wrote, and the keywords embedded in the file.
Embedded(f, this_dir, jpeg_files, tags) ==
    [i \in 1..Len(jpeg_files) |->
        tags[i] @@ TagDict(None, None, f[Append(this_dir, jpeg_files[i])].data.keywords)]

\* what one call of _process_folder found in the folder (its listing, the
\* tags of its JPEG files) and what it raised
Scan(this_dir, listed, exif, res) ==
    [dir |-> this_dir, files |-> listed, exif |-> exif, raised |-> res.raised,
     n_missing |-> res.n_missing, message |-> res.message]

\* Lines 381-387, one turn of the loop over input_dirs: _process_folder
\* reads the folder, and what it returns is added to dates and files.  An
\* exception of _process_folder leaves the function.
GatherProcessFolder ==
    /\ pc = "scan"
    /\ this <= Len(InputDirs)
    /\ LET this_dir == InputDirs[this]
           listed == ListFiles(fs, this_dir)
       IN  \E tags \in [1..Len(JpegFiles(listed)) -> GatherTags] :
              LET exif == Embedded(fs, this_dir, JpegFiles(listed), tags)
                  res == ProcessFolder(this_dir, args.location, listed, exif)
                  these_files == IF this_dir \in Range(args.calib_dirs)
                                 THEN CalibPrefix(res.files) ELSE res.files
              IN  /\ log' = log \o ScanEvents(this_dir, listed)
                  /\ scanned' = Append(scanned, Scan(this_dir, listed, exif, res))
                  /\ IF res.raised # "none"
                     THEN FolderRaised(res)
                     ELSE /\ dates' = Append(dates, res.min_date)
                          /\ files' = files \o these_files
                          /\ this' = this + 1
                          /\ UNCHANGED <<pc, err>>
    /\ UNCHANGED <<args, fs, fs0, et, gathered, outdir, idx>>
    /\ UNCHANGED folderVars

\* Lines 389-396: the collision check and the dictionary returned.  The
\* ExifTool instance started at line 376 is not terminated.
GatherReturn ==
    /\ pc = "scan"
    /\ this > Len(InputDirs)
    /\ IF HasDuplicates(files)
       THEN Raise("RuntimeError: Duplication found in new image names") /\ gathered' = gathered
       ELSE IF dates = <<>>
       THEN Raise("ValueError: min() arg is an empty sequence") /\ gathered' = gathered
       ELSE /\ gathered' = [files |-> files, date |-> MinDate(dates),
                            location |-> args.location,
                            calib |-> args.calib_dirs # <<>>, returned |-> TRUE]
            /\ pc' = "create"
            /\ err' = err
    /\ UNCHANGED <<args, scanned, fs, fs0, et, this, dates, files, outdir, idx, log>>
    /\ UNCHANGED folderVars

(* -------------------------- create_deployment ------------------------- *)

\* os.mkdir(path)
Mkdir(f, path) == [p \in DOMAIN f \cup {path} |-> IF p = path THEN DirNode ELSE f[p]]

\* Lines 426-431 with the check left out and the directories made with
\* os.makedirs(exist_ok=True): files are compiled into a directory that is
\* already there.
MakeDeploymentDirMerging(f, dir, calib) ==
    [raised |-> "none",
     fs |-> IF calib THEN Mkdir(Mkdir(f, dir), Append(dir, <<"CALIB">>))
            ELSE Mkdir(f, dir)]

\* Lines 426-431: the deployment directory must not exist; it is made, and
\* a CALIB directory in it when gathered_files['calib'] is set.
MakeDeploymentDir(f, dir, calib) ==
    IF Exists(f, dir)
    THEN [raised |-> "IOError: Output directory already exists", fs |-> f]
    ELSE [raised |-> "none",
          fs |-> IF calib THEN Mkdir(Mkdir(f, dir), Append(dir, <<"CALIB">>))
                 ELSE Mkdir(f, dir)]

\* shutil.copyfile(src, dst): dst holds the data of src, and none of the
\* tags written to an earlier file of that name
CopyFile(f, src, dst) ==
    [p \in DOMAIN f \cup {dst} |-> IF p = dst THEN FileNode(f[src].data, None) ELSE f[p]]

\* et.execute without the tag argument: the copy is left as it is.
WriteNoTag(f, src, dst) == f

\* et.execute(b'-overwrite_original', '-XMP-xmpMM:PreservedFileName={src}', dst)
WriteTag(f, src, dst) ==
    [f EXCEPT ![dst] = FileNode(f[dst].data, src)]

\* Lines 419-421: the output root must be a directory.
CreateCheckRoot ==
    /\ pc = "create"
    /\ log' = Append(log, Event("isdir", args.output_root, <<>>))
    /\ IF ~IsDir(fs, args.output_root)
       THEN Raise("IOError: Output root directory not found")
       ELSE pc' = "mkdir" /\ err' = err
    /\ UNCHANGED <<args, scanned, fs, fs0, et, this, dates, files, gathered, outdir, idx>>
    /\ UNCHANGED folderVars

\* Lines 423-431: the name of the deployment directory, and the directory.
CreateMakeDir ==
    /\ pc = "mkdir"
    /\ LET dir == PathJoin(args.output_root,
                           <<DeploymentName(gathered.location, gathered.date)>>)
           made == MakeDeploymentDir(fs, dir, gathered.calib)
       IN  /\ outdir' = dir
           /\ fs' = made.fs
           /\ IF made.raised # "none"
              THEN Raise(made.raised) /\ log' = Append(log, Event("exists", dir, <<>>))
              ELSE /\ pc' = "create_et"
                   /\ err' = err
                   /\ log' = log \o <<Event("exists", dir, <<>>), Event("mkdir", dir, <<>>)>>
                             \o (IF gathered.calib
                                 THEN <<Event("mkdir", Append(dir, <<"CALIB">>), <<>>)>>
                                 ELSE <<>>)
    /\ UNCHANGED <<args, scanned, fs0, et, this, dates, files, gathered, idx>>
    /\ UNCHANGED folderVars

\* Lines 436-438: the ExifTool instance of create_deployment.
CreateStartEt ==
    /\ pc = "create_et"
    /\ et' = [et EXCEPT !.create = "running"]
    /\ log' = Append(log, Event("et.start", <<>>, <<>>))
    /\ pc' = "copy"
    /\ UNCHANGED <<args, scanned, fs, fs0, err, this, dates, files, gathered, outdir, idx>>
    /\ UNCHANGED folderVars

\* Lines 441-444: the next (src, dst) pair is copied into the deployment
\* directory.  shutil.copyfile raises OSError when the source cannot be read
\* or the destination cannot be written (a full disk, a directory that is
\* not there, a destination that is the source); nothing catches it.
CreateCopyFile ==
    /\ pc = "copy"
    /\ idx <= Len(gathered.files)
    /\ LET src == gathered.files[idx].src
           dst == PathJoin(outdir, gathered.files[idx].dst)
       IN  \E io_error \in BOOLEAN :
              /\ log' = Append(log, Event("copyfile", dst, src))
              /\ IF io_error \/ ~IsDir(fs, Parent(dst)) \/ src = dst
                 THEN Raise("OSError: copyfile") /\ fs' = fs
                 ELSE /\ fs' = CopyFile(fs, src, dst)
                      /\ pc' = "tag"
                      /\ err' = err
    /\ UNCHANGED <<args, scanned, fs0, et, this, dates, files, gathered, outdir, idx>>
    /\ UNCHANGED folderVars

\* Lines 445-448: the source path is written into the copy's
\* PreservedFileName tag, and the loop moves on.
CreateWriteTag ==
    /\ pc = "tag"
    /\ LET src == gathered.files[idx].src
           dst == PathJoin(outdir, gathered.files[idx].dst)
       IN  /\ fs' = WriteTag(fs, src, dst)
           /\ log' = Append(log, Event("et.execute", dst, src))
    /\ idx' = idx + 1
    /\ pc' = "copy"
    /\ UNCHANGED <<args, scanned, fs0, err, et, this, dates, files, gathered, outdir>>
    /\ UNCHANGED folderVars

\* Lines 450-453: the ExifTool instance is terminated and outdir returned.
CreateReturn ==
    /\ pc = "copy"
    /\ idx > Len(gathered.files)
    /\ et' = [et EXCEPT !.create = "terminated"]
    /\ log' = Append(log, Event("et.terminate", <<>>, <<>>))
    /\ pc' = "done"
    /\ UNCHANGED <<args, scanned, fs, fs0, err, this, dates, files, gathered, outdir, idx>>
    /\ UNCHANGED folderVars

Next ==
    \/ GatherCheckDirs
    \/ GatherStartEt
    \/ GatherProcessFolder
    \/ GatherReturn
    \/ CreateCheckRoot
    \/ CreateMakeDir
    \/ CreateStartEt
    \/ CreateCopyFile
    \/ CreateWriteTag
    \/ CreateReturn

\* A run of the process_deployment command, or of a script that calls
\* gather_deployment_files and then create_deployment.
Spec == Init /\ [][Next]_vars

\* The runs on two image folders, and at times a calibration folder, whose
\* images an annotator has tagged with a location, or has not.
InitTagged ==
    /\ \E calib \in {<<>>, <<CalibDir>>},
          site \in [SourceDirs -> SiteKeywords \cup {None}],
          count \in [SourceDirs -> 0..MaxFiles] :
          /\ args = [image_dirs |-> <<Cam1, Cam2>>, calib_dirs |-> calib,
                     calib_none |-> FALSE, location |-> Location,
                     output_root |-> OutputRoot]
          /\ CalibDir \notin Range(calib) => count[CalibDir] = 0
          /\ count[CalibDir] < MaxFiles
          /\ \A d \in SourceDirs : count[d] = 0 => site[d] = None
          /\ fs = WorldFs(count, {}, site)
    /\ RunStart

SpecTagged == InitTagged /\ [][Next]_vars

(* ------------------- the functions of a single folder ----------------- *)

\* The listings of a folder: up to MaxFiles files of different names, in
\* any order.
Listings ==
    UNION {{l \in [1..n -> Range(SourceNames)] : ~HasRepeat(l)} : n \in 0..MaxFiles}

RunIdle ==
    /\ args = [image_dirs |-> <<>>, calib_dirs |-> <<>>, calib_none |-> FALSE,
               location |-> Location, output_root |-> OutputRoot]
    /\ fs = <<>>
    /\ fs0 = <<>>
    /\ pc = "idle"
    /\ err = "none"
    /\ et = [gather |-> "unborn", create |-> "unborn"]
    /\ this = 1
    /\ dates = <<>>
    /\ files = <<>>
    /\ gathered = NoGathered
    /\ outdir = <<>>
    /\ idx = 1
    /\ log = <<>>
    /\ scanned = <<>>

InitFolder ==
    /\ \E l \in Listings :
          \E e \in [1..Len(JpegFiles(l)) -> ImageTags] :
             folder = [files |-> l, exif |-> e]
    /\ processed = NotCalled
    /\ validated = NotCalled
    /\ extracted = <<>>
    /\ converted = NotCalled
    /\ RunIdle

\* _process_folder(image_dir, location, et) on the folder
CallProcessFolder ==
    /\ ~processed.called
    /\ processed' = [called |-> TRUE,
                     result |-> ProcessFolder(Cam1, args.location, folder.files,
                                              folder.exif)]
    /\ UNCHANGED <<folder, validated, extracted, converted>>
    /\ UNCHANGED runVars

\* validate_folder(image_dir) on the folder
CallValidateFolder ==
    /\ ~validated.called
    /\ validated' = [called |-> TRUE, result |-> ValidateFolder(folder.files, folder.exif)]
    /\ UNCHANGED <<folder, processed, extracted, converted>>
    /\ UNCHANGED runVars

NextFolder ==
    \/ CallProcessFolder
    \/ CallValidateFolder

\* _process_folder and validate_folder, each called once on a folder.
SpecFolder == InitFolder /\ [][NextFolder]_vars


(* ------------------- process_deployment.py, the script ---------------- *)

\* [fl for fl, tg in zip(files, tag_data) if tag_check not in tg]
ScriptTagMissing(listed, tag_data, tag_check) ==
    LET n == IF Len(listed) < Len(tag_data) THEN Len(listed) ELSE Len(tag_data)
    IN  SelectIdx(SubSeq(listed, 1, n), {i \in 1..n : tag_check \notin DOMAIN tag_data[i]})

\* new_name of the script: location + "_" + dt.strftime("%Y%m%d_%H%M%S")
\* + '_' + Sequence.split()[0] + ".jpg"
ScriptNewName(location, dt, sequence) ==
    location \o <<"_">> \o StrftimeYmdHms(dt) \o <<"_">> \o SplitFirst(sequence)
    \o <<".jpg">>

\* _process_folder(image_dir, location, et, report_n) of the script.  A
\* folder without JPEG files ends in ValueError: in min(create_date) on the
\* empty list, if not already in et.get_tags_batch.
ScriptProcessFolder(image_dir, location, listed, exif) ==
    LET jpeg_files == JpegFiles(listed)
        paths == [i \in 1..Len(jpeg_files) |-> Append(image_dir, jpeg_files[i])]
        tag_data == GetTagsBatch({CreateDateTag, SequenceTag}, exif)
        date_missing == ScriptTagMissing(listed, tag_data, CreateDateTag)
        seq_missing == ScriptTagMissing(listed, tag_data, SequenceTag)
        create_date == [i \in 1..Len(tag_data) |-> Strptime(tag_data[i][CreateDateTag])]
    IN  IF Len(date_missing) > 0
        THEN [NoResult EXCEPT !.raised = "RuntimeError: files missing EXIF:CreateDate tag",
                              !.n_missing = Len(date_missing),
                              !.message = ReportMissing(date_missing)]
        ELSE IF Len(seq_missing) > 0
        THEN [NoResult EXCEPT !.raised = "RuntimeError: files missing MakerNotes:Sequence tag",
                              !.n_missing = Len(seq_missing),
                              !.message = ReportMissing(seq_missing)]
        ELSE IF \E i \in 1..Len(tag_data) : ~Parses(tag_data[i][CreateDateTag])
        THEN [NoResult EXCEPT !.raised = "ValueError: time data does not match format"]
        ELSE IF Len(jpeg_files) = 0
        THEN [NoResult EXCEPT !.raised = "ValueError: folder without images"]
        ELSE [NoResult EXCEPT
                 !.files = [i \in 1..Len(paths) |->
                               [src |-> paths[i],
                                dst |-> <<ScriptNewName(location, create_date[i],
                                                        tag_data[i][SequenceTag])>>]],
                 !.min_date = MinDate(create_date)]

\* The runs of the script: its arguments, among them the copy option.
InitScript ==
    /\ \E image_dirs \in {<<Cam1>>, <<Cam1, Cam2>>, <<Cam1, AbsentDir>>},
          calib \in CalibDirArgs, root \in {OutputRoot, NoRoot}, copy \in BOOLEAN :
          args = [image_dirs |-> image_dirs, calib_dirs |-> calib.dirs,
                  calib_none |-> calib.none, location |-> Location,
                  output_root |-> root, copy |-> copy]
    /\ \E count \in [SourceDirs -> 0..MaxFiles], old \in {{}, {1}} :
          /\ \A d \in SourceDirs :
                 d \notin Range(args.image_dirs \o args.calib_dirs) => count[d] = 0
          /\ args.output_root # OutputRoot => old = {}
          /\ count[CalibDir] < MaxFiles
          /\ fs = WorldFs(count, old, Unannotated)
    /\ fs0 = fs
    /\ pc = "script"
    /\ err = "none"
    /\ et = [script |-> "unborn"]
    /\ this = 1
    /\ dates = <<>>
    /\ files = <<>>
    /\ gathered = NoGathered
    /\ outdir = <<>>
    /\ idx = 1
    /\ log = <<>>
    /\ scanned = <<>>
    /\ FolderIdle

\* Lines 103-112: the output root is tested, then the input directories;
\* image_dirs + calib_dirs raises TypeError when --calib was not given.
ScriptCheckDirs ==
    /\ pc = "script"
    /\ IF ~IsDir(fs, args.output_root)
       THEN /\ Raise("IOError: Output root directory not found")
            /\ log' = Append(log, Event("isdir", args.output_root, <<>>))
       ELSE IF args.calib_none
       THEN /\ Raise("TypeError: can only concatenate list")
            /\ log' = Append(log, Event("isdir", args.output_root, <<>>))
       ELSE /\ log' = <<Event("isdir", args.output_root, <<>>)>>
                      \o [i \in 1..Len(InputDirs) |-> Event("isdir", InputDirs[i], <<>>)]
            /\ IF \E i \in 1..Len(InputDirs) : ~IsDir(fs, InputDirs[i])
               THEN Raise("IOError: Directories not found")
               ELSE pc' = "script_et" /\ err' = err
    /\ UNCHANGED <<args, scanned, fs, fs0, et, this, dates, files, gathered, outdir, idx>>
    /\ UNCHANGED folderVars

\* Lines 114-116: the one ExifTool instance of the script.
ScriptStartEt ==
    /\ pc = "script_et"
    /\ et' = [et EXCEPT !.script = "running"]
    /\ log' = Append(log, Event("et.start", <<>>, <<>>))
    /\ pc' = "script_scan"
    /\ UNCHANGED <<args, scanned, fs, fs0, err, this, dates, files, gathered, outdir, idx>>
    /\ UNCHANGED folderVars

\* Lines 118-130: _process_folder on the next directory, the image folders
\* first and the calibration folders after them, whose names go under CALIB.
ScriptScanFolder ==
    /\ pc = "script_scan"
    /\ this <= Len(InputDirs)
    /\ LET this_dir == InputDirs[this]
           listed == ListFiles(fs, this_dir)
       IN  \E tags \in [1..Len(JpegFiles(listed)) -> GatherTags] :
              LET exif == Embedded(fs, this_dir, JpegFiles(listed), tags)
                  res == ScriptProcessFolder(this_dir, args.location, listed, exif)
                  these_files == IF this > Len(args.image_dirs)
                                 THEN CalibPrefix(res.files) ELSE res.files
              IN  /\ log' = log \o <<Event("listdir", this_dir, <<>>),
                                     Event("get_tags_batch", this_dir, <<>>)>>
                  /\ scanned' = Append(scanned, Scan(this_dir, listed, exif, res))
                  /\ IF res.raised # "none"
                     THEN FolderRaised(res)
                     ELSE /\ dates' = Append(dates, res.min_date)
                          /\ files' = files \o these_files
                          /\ this' = this + 1
                          /\ UNCHANGED <<pc, err>>
    /\ UNCHANGED <<args, fs, fs0, et, gathered, outdir, idx>>
    /\ UNCHANGED folderVars

\* Line 137, with the test of the copy option left out.
CopyAlways(a) == TRUE

\* Line 137: if copy
CopyRequested(a) == a.copy

\* Lines 132-137: the collision check, and the copy option.
ScriptCheckNames ==
    /\ pc = "script_scan"
    /\ this > Len(InputDirs)
    /\ IF HasDuplicates(files)
       THEN Raise("RuntimeError: Duplication found in new image names")
       ELSE /\ pc' = IF CopyRequested(args) THEN "script_mkdir" ELSE "script_end"
            /\ err' = err
    /\ UNCHANGED <<args, scanned, fs, fs0, et, this, dates, files, gathered, outdir, idx,
                   log>>
    /\ UNCHANGED folderVars

\* Lines 139-147: the deployment directory must not exist; it is made, and
\* a CALIB directory in it, calib_dirs being a list.
ScriptMakeDir ==
    /\ pc = "script_mkdir"
    /\ LET dir == PathJoin(args.output_root,
                           <<DeploymentName(args.location, MinDate(dates))>>)
           made == MakeDeploymentDir(fs, dir, TRUE)
       IN  /\ outdir' = dir
           /\ fs' = made.fs
           /\ IF made.raised # "none"
              THEN Raise(made.raised) /\ log' = Append(log, Event("exists", dir, <<>>))
              ELSE /\ pc' = "script_copy"
                   /\ err' = err
                   /\ log' = log \o <<Event("exists", dir, <<>>), Event("mkdir", dir, <<>>),
                                      Event("mkdir", Append(dir, <<"CALIB">>), <<>>)>>
    /\ UNCHANGED <<args, scanned, fs0, et, this, dates, files, gathered, idx>>
    /\ UNCHANGED folderVars

\* Lines 153-157: the next file is copied; nothing catches an OSError of
\* shutil.copyfile.
ScriptCopyFile ==
    /\ pc = "script_copy"
    /\ idx <= Len(files)
    /\ LET src == files[idx].src
           dst == PathJoin(outdir, files[idx].dst)
       IN  \E io_error \in BOOLEAN :
              /\ log' = Append(log, Event("copyfile", dst, src))
              /\ IF io_error \/ ~IsDir(fs, Parent(dst)) \/ src = dst
                 THEN Raise("OSError: copyfile") /\ fs' = fs
                 ELSE /\ fs' = CopyFile(fs, src, dst)
                      /\ pc' = "script_tag"
                      /\ err' = err
    /\ UNCHANGED <<args, scanned, fs0, et, this, dates, files, gathered, outdir, idx>>
    /\ UNCHANGED folderVars

\* Lines 158-161: the source path is written into the copy.
ScriptWriteTag ==
    /\ pc = "script_tag"
    /\ LET src == files[idx].src
           dst == PathJoin(outdir, files[idx].dst)
       IN  /\ fs' = WriteTag(fs, src, dst)
           /\ log' = Append(log, Event("et.execute", dst, src))
    /\ idx' = idx + 1
    /\ pc' = "script_copy"
    /\ UNCHANGED <<args, scanned, fs0, err, et, this, dates, files, gathered, outdir>>
    /\ UNCHANGED folderVars

\* Lines 163-164: the ExifTool instance is terminated, after the copy loop
\* or, without the copy option, after the checks.
ScriptReturn ==
    /\ \/ pc = "script_end"
       \/ pc = "script_copy" /\ idx > Len(files)
    /\ et' = [et EXCEPT !.script = "terminated"]
    /\ log' = Append(log, Event("et.terminate", <<>>, <<>>))
    /\ pc' = "done"
    /\ UNCHANGED <<args, scanned, fs, fs0, err, this, dates, files, gathered, outdir, idx>>
    /\ UNCHANGED folderVars

NextScript ==
    \/ ScriptCheckDirs
    \/ ScriptStartEt
    \/ ScriptScanFolder
    \/ ScriptCheckNames
    \/ ScriptMakeDir
    \/ ScriptCopyFile
    \/ ScriptWriteTag
    \/ ScriptReturn

\* A run of process_deployment.py.
SpecScript == InitScript /\ [][NextScript]_vars

(* ---------------------- extract_deployment_data ----------------------- *)

\* How many times a deployment is extracted.
Extractions == 2

\* keep_tags, in the order the code lists them: the list of validate_folder
KeepTags == TargetTags

\* the simplified names of keep_tags, in that order
ShortKeepTags == [i \in 1..Len(KeepTags) |-> SubGroup(KeepTags[i])]

\* The keywords the images of a deployment carry: a list of strings, or a
\* single string.
ExtractKeywordValues ==
    {KwList(<< <<"15", ":", " ", "SITE-A">>, <<"9", ":", " ", "burst">> >>),
     KwList(<< <<"15", ":", " ", "SITE-A">>, <<"16", ":", " ", "Person">> >>),
     KwStr(<<"15", ":", " ", "SITE-A">>)}

\* What et.get_metadata_batch finds in the images of a deployment.  No image
\* carries a camera tag (Make, Model, ...) here.
ExtractTags ==
    {TagDict(d, None, k) : d \in {TimeTable[1].raw, None},
                           k \in ExtractKeywordValues \cup {None}}

\* The CALIB directory of a deployment: absent, or a directory of images.
NoCalibDir == [exists |-> FALSE, files |-> <<>>, exif |-> <<>>]

CalibDirs ==
    {NoCalibDir}
    \cup {[exists |-> TRUE, files |-> l, exif |-> e] :
             l \in {<<>>, <<SourceNames[1]>>},
             e \in {<<>>} \cup {<<TagDict(None, None, k)>> : k \in ExtractKeywordValues}}

\* entry.update({'Calib': calib_flag}) on every entry of a batch
FlagCalib(this_exif, calib_flag) ==
    [i \in 1..Len(this_exif) |->
        [tg \in DOMAIN this_exif[i] \cup {<<"Calib">>} |->
            IF tg = <<"Calib">> THEN calib_flag ELSE this_exif[i][tg]]]

\* Every image flagged 0, those of the CALIB directory too.
FlaggedExifAllImages(deployment) ==
    FlagCalib(deployment.exif \o deployment.calib.exif, 0)

\* exif: the metadata of the images of the deployment directory, flagged 0,
\* followed by that of the images of its CALIB directory, flagged 1
FlaggedExif(deployment) ==
    FlagCalib(deployment.exif, 0) \o FlagCalib(deployment.calib.exif, 1)

\* Step 1 of the keyword tagging.  The library takes a single string as a
\* list of one string; the script splits every character of it, and
\* vl[1] of a character that is not a colon is an IndexError.
UnpackKeywords(keywords, wraps_str) ==
    IF keywords # None /\ keywords[1] = "str" /\ ~wraps_str
    THEN [raised |-> "IndexError", dict |-> <<>>]
    ELSE ConvertKeywords(keywords)

\* exif[idx] = {short_key: entry.get(long_key, None) ...}, then the keywords
\* of each entry unpacked
Unpacked(exif, wraps_str) ==
    [i \in 1..Len(exif) |->
        UnpackKeywords(SimplifyEntry(exif[i], KeepTags)[<<"Keywords">>], wraps_str)]

\* keyword_tags taken from the first entry alone
KeywordTagsOfFirst(exif, wraps_str) ==
    IF exif = <<>> THEN {} ELSE DOMAIN Unpacked(exif, wraps_str)[1].dict

\* Step 2: keyword_tags = set([tg for tag_list in keyword_tags for tg in tag_list])
KeywordTagSet(exif, wraps_str) ==
    LET unpacked == Unpacked(exif, wraps_str)
    IN  UNION {DOMAIN unpacked[i].dict : i \in 1..Len(exif)}

\* The orders in which iterating over a set of strings can yield its
\* members: the hash of a string differs from one interpreter to the next.
Orderings(S) == {o \in [1..Cardinality(S) -> S] : ~HasRepeat(o)}

\* Step 3 and exif_fields.keys(): the keys of exif[0] in insertion order,
\* the simplified keep_tags, then the keyword tags in the order of the
\* iteration over keyword_tags, and 'Keywords' deleted
ExifFieldKeys(order) ==
    SelectSeq(ShortKeepTags, LAMBDA k : k # <<"Keywords">>) \o order

\* Step 3: entry.update({tag: keywords.get(tag, None) for tag in
\* keyword_tags}) and del entry['Keywords'], for every entry
ExifEntries(exif, wraps_str) ==
    LET unpacked == Unpacked(exif, wraps_str)
        keyword_tags == KeywordTagSet(exif, wraps_str)
    IN  [i \in 1..Len(exif) |->
            LET entry == SimplifyEntry(exif[i], KeepTags)
                kw_dict == unpacked[i].dict
            IN  [k \in (DOMAIN entry \cup keyword_tags) \ {<<"Keywords">>} |->
                    IF k \in keyword_tags
                    THEN (IF k \in DOMAIN kw_dict THEN kw_dict[k] ELSE None)
                    ELSE entry[k]]]

\* exif_fields[k]: the values of the images in one field
FieldValues(entries, k) == [i \in 1..Len(entries) |-> entries[i][k]]

NotWritten(function, raised) ==
    [function |-> function, raised |-> raised, written |-> FALSE, columns |-> <<>>,
     rows |-> <<>>, n_images |-> 0, n_calib |-> 0]

\* os.listdir(deployment) of a path that is no directory
ListdirError(deployment) ==
    IF deployment.kind = "absent" THEN "FileNotFoundError" ELSE "NotADirectoryError"

\* extract_deployment_data of safe_camera_trap_tools.py.  The test of line
\* 476, not exists and isdir, is never true, so that os.listdir meets a
\* path that is no directory.  The function returns None for a deployment
\* without images; for any other the name OrderedDict, which the module
\* does not import, ends the call before the file is opened.
LibraryExtract(deployment) ==
    LET exif == FlaggedExif(deployment)
    IN  IF deployment.kind # "dir" THEN NotWritten("library", ListdirError(deployment))
        ELSE IF Len(exif) = 0 THEN NotWritten("library", "none")
        ELSE IF "IndexError" \in {u.raised : u \in Range(Unpacked(exif, TRUE))}
        THEN NotWritten("library", "IndexError")
        ELSE NotWritten("library", "NameError")

\* What et.get_metadata_batch([]) does lies with the metadata reader: it
\* returns an empty list or fails to decode the reader's empty answer.
EmptyBatchOutcomes == {"empty list", "ValueError"}

\* extract_deployment_data of extract_deployment_data.py.  The test of line
\* 38 is never true either.  exif[0] is an IndexError for a deployment
\* without images, strptime a ValueError for a date in another format,
\* startswith(None) a TypeError when some images carry a location tag and
\* others none; otherwise the header lines and the table are written.
ScriptExtract(deployment, order, empty_batch) ==
    LET exif == FlaggedExif(deployment)
        entries == ExifEntries(exif, FALSE)
        create_date == FieldValues(entries, <<"CreateDate">>)
    IN  IF deployment.kind # "dir" THEN NotWritten("script", ListdirError(deployment))
        ELSE IF /\ empty_batch = "ValueError"
                /\ \/ deployment.exif = <<>>
                   \/ deployment.calib.exists /\ deployment.calib.exif = <<>>
        THEN NotWritten("script", "ValueError")
        ELSE IF "IndexError" \in {u.raised : u \in Range(Unpacked(exif, FALSE))}
        THEN NotWritten("script", "IndexError")
        ELSE IF Len(exif) = 0 THEN NotWritten("script", "IndexError")
        ELSE IF \E i \in 1..Len(exif) :
                   create_date[i] # None /\ ~Parses(create_date[i])
        THEN NotWritten("script", "ValueError")
        ELSE IF /\ LocationKey \in DOMAIN entries[1]
                /\ None \in Range(FieldValues(entries, LocationKey))
        THEN NotWritten("script", "TypeError")
        ELSE [function |-> "script", raised |-> "none", written |-> TRUE,
              columns |-> ExifFieldKeys(order),
              rows |-> entries,
              n_images |-> Len(deployment.exif),
              n_calib |-> Len(deployment.calib.exif)]

\* What os.listdir yields for a deployment directory: up to MaxFiles of the
\* file names, in the order of the directory.
DeploymentListings ==
    {SelectIdx(SourceNames, held) : held \in {h \in SUBSET (1..Len(SourceNames)) :
                                                Cardinality(h) <= MaxFiles}}

\* The path given as the deployment: a directory and the metadata of its
\* images and of those of its CALIB directory, or a file, or nothing.
Deployments ==
    {[kind |-> "dir", files |-> l, exif |-> e, calib |-> c] :
        l \in DeploymentListings, e \in UNION {[1..n -> ExtractTags] : n \in 0..MaxFiles},
        c \in CalibDirs}
    \cup {[kind |-> k, files |-> <<>>, exif |-> <<>>, calib |-> NoCalibDir] :
             k \in {"file", "absent"}}

InitExtract ==
    /\ folder \in Deployments
    /\ Len(folder.exif) = Len(JpegFiles(folder.files))
    /\ Len(folder.calib.exif) = Len(folder.calib.files)
    /\ processed = NotCalled
    /\ validated = NotCalled
    /\ extracted = <<>>
    /\ converted = NotCalled
    /\ RunIdle

\* safe_camera_trap_tools.extract_deployment_data(deployment)
ExtractLibrary ==
    /\ Len(extracted) < Extractions
    /\ extracted' = Append(extracted, LibraryExtract(folder))
    /\ UNCHANGED <<folder, processed, validated, converted>>
    /\ UNCHANGED runVars

\* extract_deployment_data.extract_deployment_data(deployment), in an
\* interpreter of its own
ExtractScript ==
    /\ Len(extracted) < Extractions
    /\ \E order \in Orderings(KeywordTagSet(FlaggedExif(folder), FALSE)),
          empty_batch \in EmptyBatchOutcomes :
          extracted' = Append(extracted, ScriptExtract(folder, order, empty_batch))
    /\ UNCHANGED <<folder, processed, validated, converted>>
    /\ UNCHANGED runVars

NextExtract ==
    \/ ExtractLibrary
    \/ ExtractScript

\* The extractions of one deployment.
SpecExtract == InitExtract /\ [][NextExtract]_vars

\* validate_folder and the two extract_deployment_data functions, each
\* called on the deployment directory.
NextImageData ==
    \/ folder.kind = "dir" /\ CallValidateFolder
    \/ extracted = <<>> /\ ExtractLibrary
    \/ extracted = <<>> /\ ExtractScript

SpecImageData == InitExtract /\ [][NextImageData]_vars

\* _convert_keywords on its own.

\* How many strings a list of keywords holds at most.
MaxKeywords == 3

\* The strings 'tag_number: value' an annotator writes: plain ones, one
\* with blanks around the value, one whose value holds a colon, one whose
\* value holds a comma and a blank.
KeywordStrings ==
    {<<"15", ":", " ", "E100-2-23">>,
     <<"16", ":", " ", "Person">>,
     <<"16", ":", " ", " ", "Setup", " ">>,
     <<"24", ":", " ", "Phil">>,
     <<"24", ":", " ", "10", ":", "30">>,
     <<"9", ":", " ", "Smith", ", ", "John">>}

\* The values of IPTC:Keywords: None, a single string, or a list of strings.
KeywordInputs ==
    {None}
    \cup {KwStr(kw) : kw \in KeywordStrings}
    \cup {KwList(l) : l \in UNION {[1..n -> KeywordStrings] : n \in 0..MaxKeywords}}

InitKeywords ==
    /\ \E keywords \in KeywordInputs : converted = [called |-> FALSE, keywords |-> keywords]
    /\ folder = NoFolder
    /\ processed = NotCalled
    /\ validated = NotCalled
    /\ extracted = <<>>
    /\ RunIdle

\* _convert_keywords(keywords)
CallConvertKeywords ==
    /\ ~converted.called
    /\ converted' = [called |-> TRUE, keywords |-> converted.keywords,
                     result |-> ConvertKeywords(converted.keywords)]
    /\ UNCHANGED <<folder, processed, validated, extracted>>
    /\ UNCHANGED runVars

NextKeywords == CallConvertKeywords

SpecKeywords == InitKeywords /\ [][NextKeywords]_vars

(* ------------------------------- claims ------------------------------- *)

\* the calls of one kind made so far, in order
Calls(ops) == SelectIdx(log, {i \in 1..Len(log) : log[i].op \in ops})

\* the destination names gathered so far, as the copy would place them
DestinationNames == [i \in 1..Len(files) |-> files[i].dst]

\* the deployment directory create_deployment is to make
DeploymentPath ==
    PathJoin(args.output_root, <<DeploymentName(gathered.location, gathered.date)>>)

\* p is dir or lies below it
Within(dir, p) == Len(p) >= Len(dir) /\ SubSeq(p, 1, Len(dir)) = dir

RunEnded == pc \in {"done", "raised"}

\* C1: no two source images are copied to the same destination path, and
\* once every input directory is scanned and the merged list of names holds
\* a duplicate, the run has ended with the duplication error, the file
\* system is as it was, and no directory was made and no file copied.
C1_NoCollision ==
    /\ \A i, j \in 1..Len(log) :
          (i # j /\ log[i].op = "copyfile" /\ log[j].op = "copyfile")
              => log[i].path # log[j].path
    /\ (pc \notin {"gather", "gather_et", "scan"} /\ this > Len(InputDirs)
          /\ HasRepeat(DestinationNames))
          => /\ pc = "raised"
             /\ err = "RuntimeError: Duplication found in new image names"
             /\ fs = fs0
             /\ Calls({"mkdir", "copyfile"}) = <<>>

\* C1: two directories were scanned, their names collide, and the run ended
\* with the duplication error.
C1_Witness ==
    /\ pc = "raised"
    /\ err = "RuntimeError: Duplication found in new image names"
    /\ Len(InputDirs) = 2
    /\ HasRepeat(DestinationNames)

\* C2: a run that got as far as create_deployment and has ended leaves the
\* deployment directory either holding a copy of every image of the plan or
\* not there at all.
C2_AllOrNothing ==
    (RunEnded /\ gathered.returned /\ ~Exists(fs0, DeploymentPath))
        => \/ ~Exists(fs, DeploymentPath)
           \/ \A i \in 1..Len(gathered.files) :
                 Exists(fs, PathJoin(DeploymentPath, gathered.files[i].dst))

\* the errors of gather_deployment_files the specification calls fatal
GatherFatal ==
    {"IOError: Directories not found",
     "IOError: Same folder in both lists",
     "RuntimeError: files missing creation date tag",
     "RuntimeError: files missing sequence number",
     "RuntimeError: Duplication found in new image names"}

\* C3: a fatal gather error (a missing input directory, a directory listed
\* twice, an image without creation date or sequence number, a duplicate
\* name) ends the run before any directory is made and before any file is
\* copied.
C3_GatherAborts ==
    err \in GatherFatal
        => /\ pc = "raised"
           /\ ~gathered.returned
           /\ fs = fs0
           /\ Calls({"mkdir", "copyfile", "et.execute"}) = <<>>

\* C3: the second directory scanned holds an image without creation date.
C3_Witness ==
    /\ pc = "raised"
    /\ err = "RuntimeError: files missing creation date tag"
    /\ this = 2
    /\ files # <<>>

\* C4: when the deployment directory is there before create_deployment is
\* called, the call raises the already-exists error before any file is
\* copied and before its ExifTool instance is started, and the directory's
\* contents are as they were.
C4_ExistingOutdir ==
    (gathered.returned /\ pc \notin {"create", "mkdir"} /\ Exists(fs0, DeploymentPath))
        => /\ pc = "raised"
           /\ err = "IOError: Output directory already exists"
           /\ fs = fs0
           /\ et.create = "unborn"
           /\ Calls({"mkdir", "copyfile", "et.execute"}) = <<>>

\* C4: the call was refused for a directory that holds an old image.
C4_Witness ==
    /\ pc = "raised"
    /\ err = "IOError: Output directory already exists"
    /\ gathered.files # <<>>
    /\ Exists(fs, Append(DeploymentPath, OldImage))

\* C5: whatever was in the file system when the run began is still there
\* unchanged, the source folders included, and every write of the run goes
\* into the deployment directory the run made.
C5_SourcesUntouched ==
    /\ \A p \in DOMAIN fs0 : p \in DOMAIN fs /\ fs[p] = fs0[p]
    /\ \A p \in DOMAIN fs \ DOMAIN fs0 :
          /\ outdir \notin DOMAIN fs0
          /\ Within(outdir, p)
    /\ \A i \in 1..Len(log) :
          log[i].op \in {"mkdir", "copyfile", "et.execute"}
              => /\ Within(outdir, log[i].path)
                 /\ outdir \notin DOMAIN fs0

\* the copy and the metadata write of each pair of the plan, in plan order
PlannedCalls ==
    [k \in 1..(2 * Len(gathered.files)) |->
        LET pair == gathered.files[(k + 1) \div 2]
        IN  Event(IF k % 2 = 1 THEN "copyfile" ELSE "et.execute",
                  PathJoin(DeploymentPath, pair.dst), pair.src)]

\* C6: the copies and metadata writes made so far are the first calls of
\* the plan (each pair copied, then tagged, pairs in plan order); after a
\* successful run every pair was copied and tagged, and the copy names its
\* source as its preserved file name.
C6_CopyThenTag ==
    LET made == Calls({"copyfile", "et.execute"})
    IN  /\ Len(made) <= Len(PlannedCalls)
        /\ made = SubSeq(PlannedCalls, 1, Len(made))
        /\ pc = "done"
              => /\ made = PlannedCalls
                 /\ \A i \in 1..Len(gathered.files) :
                       LET src == gathered.files[i].src
                           dst == PathJoin(DeploymentPath, gathered.files[i].dst)
                       IN  /\ dst \in DOMAIN fs
                           /\ fs[dst].kind = "file"
                           /\ fs[dst].preserved = src

\* C6: a run that copied and tagged the images of two directories.
C6_Witness ==
    /\ pc = "done"
    /\ Len(gathered.files) >= 2
    /\ Len(Calls({"et.execute"})) = Len(gathered.files)
    /\ Len(InputDirs) = 2

\* C7: when gather_deployment_files has returned or the run has ended, no
\* ExifTool instance a function started is still running.
C7_EtReleased ==
    (gathered.returned \/ RunEnded)
        => /\ et.gather # "running"
           /\ et.create # "running"

\* the images of the folder given to _process_folder and validate_folder
FolderImages == JpegFiles(folder.files)

HasTag(i, tag) == tag \in DOMAIN folder.exif[i]

\* C8: an image with creation time t and sequence tag "n m" gets the
\* destination name {location}_{YYYYMMDD}_{HHMMSS}_{n}.jpg.
C8_DestinationName ==
    (processed.called /\ processed.result.raised = "none")
        => \A i \in 1..Len(FolderImages) :
              (HasTag(i, CreateDateTag) /\ HasTag(i, SequenceTag))
                  => processed.result.files[i].dst =
                        << args.location \o <<"_">>
                           \o StrftimeYmdHms(Strptime(folder.exif[i][CreateDateTag]))
                           \o <<"_">> \o SplitFirst(folder.exif[i][SequenceTag])
                           \o <<".jpg">> >>

\* an image with neither a sequence tag nor a sequence in its file name
Unsequenced(i) ==
    /\ ~HasTag(i, SequenceTag)
    /\ RegexSeqOf(FolderImages[i]) = None

\* the synthetic sequence identifiers
SyntheticIds == <<"X1", "X2", "X3", "X4">>

\* C9: in a folder whose images all have a creation date, the images that
\* have neither sequence tag nor file-name sequence do not make processing
\* fail: those of one timestamp get the identifiers X1..Xn, each once.
C9_SyntheticSequence ==
    (/\ processed.called
     /\ \A i \in 1..Len(FolderImages) : HasTag(i, CreateDateTag)
     /\ \E i \in 1..Len(FolderImages) : Unsequenced(i))
        => /\ processed.result.raised = "none"
           /\ \A t \in Times :
                 LET group == {i \in 1..Len(FolderImages) :
                                  /\ Unsequenced(i)
                                  /\ Strptime(folder.exif[i][CreateDateTag]) = t}
                 IN  {processed.result.files[i].dst : i \in group}
                        = {<<args.location \o <<"_">> \o StrftimeYmdHms(t)
                             \o <<"_", SyntheticIds[k], ".jpg">>>> :
                              k \in 1..Cardinality(group)}

\* the sequence the specification resolves for an image: the first word of
\* the tag when it is there, else the number in the file name, else none
SpecSequence(i) ==
    IF HasTag(i, SequenceTag) THEN SplitFirst(folder.exif[i][SequenceTag])
    ELSE RegexSeqOf(FolderImages[i])

\* C10: the sequence tag wins over the file name, the "<n> of <m>" of the
\* file name resolves n without an error when the tag is absent, and an
\* image is unresolved only when both are absent; in validate_folder (run on
\* a folder that has images with keywords) and in _process_folder (run on a
\* folder whose images all have a creation date).
C10_SequencePriority ==
    /\ (/\ validated.called
        /\ \E i \in 1..Len(FolderImages) : HasTag(i, KeywordsTag))
          => /\ validated.result.raised = "none"
             /\ validated.result.image_data[<<"Sequence">>]
                   = [i \in 1..Len(FolderImages) |-> SpecSequence(i)]
    /\ (/\ processed.called
        /\ FolderImages # <<>>
        /\ \A i \in 1..Len(FolderImages) : HasTag(i, CreateDateTag))
          => IF \E i \in 1..Len(FolderImages) : SpecSequence(i) = None
             THEN processed.result.raised
                     = "RuntimeError: files missing sequence number"
             ELSE processed.result.raised = "none"

\* the images of a scanned folder that have no creation date tag, in order
LackingDate(scan) ==
    SelectIdx(JpegFiles(scan.files),
              {i \in 1..Len(scan.exif) : CreateDateTag \notin DOMAIN scan.exif[i]})

\* C11: once a scanned folder holds an image without creation date tag,
\* whatever the tags of the other images, gathering has ended in the
\* missing creation date error that counts and names those images, it has
\* returned nothing, and the file system is as it was.
C11_MissingDateFatal ==
    \A k \in 1..Len(scanned) :
       LackingDate(scanned[k]) # <<>>
          => /\ pc = "raised"
             /\ err = "RuntimeError: files missing creation date tag"
             /\ scanned[k].n_missing = Len(LackingDate(scanned[k]))
             /\ scanned[k].message = ReportMissing(LackingDate(scanned[k]))
             /\ ~gathered.returned
             /\ fs = fs0

\* the location an image's keywords name, or None
LocationOf(keywords) ==
    LET dict == ConvertKeywords(keywords).dict
    IN  IF LocationKey \in DOMAIN dict THEN dict[LocationKey] ELSE None

\* the distinct locations embedded in the images of the folders given to
\* gather_deployment_files
EmbeddedLocations ==
    {LocationOf(fs0[p].data.keywords) :
        p \in {q \in DOMAIN fs0 : /\ fs0[q].kind = "file"
                                  /\ Parent(q) \in Range(InputDirs)
                                  /\ IsJpeg(q[Len(q)])}} \ {None}

GatherEnded == pc \notin {"gather", "gather_et", "scan"}

\* C12: when the images of the gathered folders name more than one location
\* in their tags, gathering ends in an error, returns nothing, and no
\* directory is made.
C12_LocationConflict ==
    (GatherEnded /\ Cardinality(EmbeddedLocations) > 1)
        => /\ pc = "raised"
           /\ ~gathered.returned
           /\ Calls({"mkdir"}) = <<>>
           /\ fs = fs0

\* C13: when the embedded location tags agree on a value that is not the
\* location the caller gave, gathering ends in an error; what gathering
\* returns is named after the caller's location, which then is the one the
\* tags agree on unless no image has a location tag.
C13_LocationHint ==
    /\ (GatherEnded /\ Cardinality(EmbeddedLocations) = 1
          /\ EmbeddedLocations # {args.location})
          => pc = "raised" /\ ~gathered.returned
    /\ gathered.returned
          => /\ EmbeddedLocations \in {{}, {args.location}}
             /\ gathered.location = args.location
             /\ \A i \in 1..Len(gathered.files) :
                   LET name == gathered.files[i].dst[Len(gathered.files[i].dst)]
                   IN  SubSeq(name, 1, Len(args.location)) = args.location

\* C14: a directory named in both lists makes gather_deployment_files raise
\* the error for it before any I/O: no directory was tested, none listed,
\* and no ExifTool instance started.
C14_SameFolderFirst ==
    (pc # "gather" /\ Range(args.image_dirs) \cap Range(args.calib_dirs) # {})
        => /\ pc = "raised"
           /\ err = "IOError: Same folder in both lists"
           /\ log = <<>>

\* a configuration error is there from the start: an input directory that
\* does not exist, a directory listed twice, an output root that is no
\* directory
ConfigurationError ==
    \/ \E i \in 1..Len(InputDirs) : ~IsDir(fs0, InputDirs[i])
    \/ HasRepeat(InputDirs)
    \/ ~IsDir(fs0, args.output_root)

ConfigurationErrors ==
    {"IOError: Directories not found",
     "IOError: Same folder in both lists",
     "IOError: Output root directory not found"}

\* C15: in a run with a configuration error no metadata of any image is
\* read, and an error raised for the configuration is raised before the
\* first metadata read.
C15_ConfigBeforeMetadata ==
    (ConfigurationError \/ err \in ConfigurationErrors)
        => Calls({"get_tags_batch"}) = <<>>

\* the pairs of the plan whose source lies in a calibration directory
CalibImages ==
    {i \in 1..Len(gathered.files) :
        Parent(gathered.files[i].src) \in Range(args.calib_dirs)}

\* C16: after a successful run the deployment directory holds a CALIB
\* directory if and only if an image of the plan is a calibration image.
C16_CalibIffImages ==
    pc = "done"
        => (IsDir(fs, Append(DeploymentPath, <<"CALIB">>)) <=> CalibImages # {})

\* C17: the date gathering returns is the earliest creation time over the
\* images of all the folders given, folders without JPEG files or not.
C17_MinDate ==
    (gathered.returned /\ gathered.files # <<>>)
        => \E k \in 1..Len(scanned) : \E i \in 1..Len(scanned[k].exif) :
              /\ gathered.date = Strptime(scanned[k].exif[i][CreateDateTag])
              /\ \A l \in 1..Len(scanned) : \A j \in 1..Len(scanned[l].exif) :
                    gathered.date <= Strptime(scanned[l].exif[j][CreateDateTag])

\* C18: the command run without --calib on valid image directories and an
\* existing output root does not fail for the lack of calibration
\* directories: gathering goes on to scan the folders, and a run that ends
\* without error has made the deployment directory.
C18_NoCalibOption ==
    (/\ args.calib_none
     /\ args.image_dirs # <<>>
     /\ ~HasRepeat(args.image_dirs)
     /\ \A i \in 1..Len(args.image_dirs) : IsDir(fs0, args.image_dirs[i])
     /\ IsDir(fs0, args.output_root)
     /\ pc # "gather")
        => /\ err # "TypeError: can only concatenate list"
           /\ Calls({"isdir"}) # <<>>
           /\ pc = "done" => IsDir(fs, DeploymentPath)

\* C19: in a run of the script without the copy option the file system
\* stays as it was: no directory is made, no file copied, no metadata
\* written, however the run ends.  Whenever a directory was made or a file
\* copied, the copy option was set, every folder had been processed, the
\* output root and the input directories were there, and the destination
\* names held no duplicate.
C19_ValidationOnly ==
    /\ ~args.copy
          => /\ fs = fs0
             /\ Calls({"mkdir", "copyfile", "et.execute"}) = <<>>
    /\ Calls({"mkdir", "copyfile", "et.execute"}) # <<>>
          => /\ args.copy
             /\ this > Len(InputDirs)
             /\ Len(scanned) = Len(InputDirs)
             /\ \A k \in 1..Len(scanned) : scanned[k].raised = "none"
             /\ ~HasRepeat(DestinationNames)
             /\ IsDir(fs0, args.output_root)
             /\ \A i \in 1..Len(InputDirs) : IsDir(fs0, InputDirs[i])

\* C19: a run without the copy option that found two folders in order and
\* ended normally.
C19_Witness ==
    /\ pc = "done"
    /\ ~args.copy
    /\ Len(files) >= 2
    /\ Len(InputDirs) = 2
    /\ et.script = "terminated"

\* the number a keyword tag field leads with
TagNumber(field) ==
    CASE field[2] = "9" -> 9
      [] field[2] = "15" -> 15
      [] field[2] = "16" -> 16
      [] field[2] = "24" -> 24

NumericOrder(S) ==
    CHOOSE o \in Orderings(S) :
        \A i, j \in 1..Len(o) : i < j => TagNumber(o[i]) < TagNumber(o[j])

\* C20: the header row of every table extracted is the fixed tag list in its
\* declared order followed by the keyword tag fields in ascending order of
\* their number (Tag_9 before Tag_15), and two extractions of the same
\* deployment write the same header row.
C20_ColumnOrder ==
    \A k \in 1..Len(extracted) :
        extracted[k].written
          => /\ extracted[k].columns
                  = SelectSeq(ShortKeepTags, LAMBDA c : c # <<"Keywords">>)
                    \o NumericOrder(KeywordTagSet(FlaggedExif(folder), TRUE))
             /\ \A j \in 1..Len(extracted) :
                   extracted[j].written => extracted[j].columns = extracted[k].columns

\* the sequences of a list, one after the other
RECURSIVE Flatten(_)
Flatten(lists) ==
    IF lists = <<>> THEN <<>> ELSE Head(lists) \o Flatten(Tail(lists))

\* the JPEG files the given directories held when the run began, directory
\* by directory in the order given, each in the order of its listing
SourcesOf(dirs) ==
    Flatten([d \in 1..Len(dirs) |->
                LET jpeg_files == JpegFiles(ListFiles(fs0, dirs[d]))
                IN  [i \in 1..Len(jpeg_files) |-> Append(dirs[d], jpeg_files[i])]])

HasCalibPrefix(dst) == Len(dst) = 2 /\ dst[1] = <<"CALIB">>

\* C21: the list gathering returns holds the images of the image
\* directories, in the order the directories were given and each directory
\* in its own order, before those of the calibration directories, and the
\* destination begins with CALIB/ for exactly the images of a calibration
\* directory.
C21_MergedOrder ==
    gathered.returned
        => /\ [i \in 1..Len(gathered.files) |-> gathered.files[i].src]
                 = SourcesOf(args.image_dirs) \o SourcesOf(args.calib_dirs)
           /\ \A i \in 1..Len(gathered.files) :
                 HasCalibPrefix(gathered.files[i].dst)
                    <=> Parent(gathered.files[i].src) \in Range(args.calib_dirs)

\* C22 as stated: validate_folder on a folder without JPEG files returns at
\* once, the metadata reader not started, with no image records and the
\* issues exactly {no_images}, whatever other files the folder holds.
C22_OnlyNoImages ==
    (validated.called /\ JpegFiles(folder.files) = <<>>)
        => /\ validated.result.raised = "none"
           /\ ~validated.result.et_started
           /\ validated.result.image_data = <<>>
           /\ Range(validated.result.issues) = {"no_images"}

\* C22 as amended: validate_folder on a folder without JPEG files returns at
\* once, the metadata reader not started, with no image records; the issues
\* hold no_images and, exactly when the folder holds other files,
\* extra_files before it, and nothing else.
C22_NoImages ==
    (validated.called /\ JpegFiles(folder.files) = <<>>)
        => /\ validated.result.raised = "none"
           /\ ~validated.result.et_started
           /\ validated.result.image_data = <<>>
           /\ validated.result.issues
                 = IF folder.files = <<>> THEN <<"no_images">>
                   ELSE <<"extra_files", "no_images">>

C22_Witness ==
    /\ validated.called
    /\ JpegFiles(folder.files) = <<>>
    /\ folder.files # <<>>
    /\ "no_images" \in Range(validated.result.issues)

\* the location tag (15) of each image of the folder, or None
FolderLocations ==
    [i \in 1..Len(folder.exif) |->
        IF KeywordsTag \in DOMAIN folder.exif[i]
        THEN LocationOf(folder.exif[i][KeywordsTag]) ELSE None]

\* C23: validate_folder on a folder with images never raises on account of
\* its keywords (AttributeError, IndexError), and the issues it returns hold
\* no_locations when no image has a location tag (also when no image has
\* any keyword), missing_locations when some images have one and others
\* none, and locations_inconsistent when more than one location occurs.
C23_LocationFlags ==
    (validated.called /\ JpegFiles(folder.files) # <<>>)
        => /\ validated.result.raised \notin {"AttributeError", "IndexError"}
           /\ validated.result.raised = "none"
                 => /\ Range(FolderLocations) = {None}
                          => "no_locations" \in Range(validated.result.issues)
                    /\ (None \in Range(FolderLocations)
                           /\ Range(FolderLocations) # {None})
                          => "missing_locations" \in Range(validated.result.issues)
                    /\ Cardinality(Range(FolderLocations) \ {None}) > 1
                          => "locations_inconsistent"
                                \in Range(validated.result.issues)

\* the creation date of each image of the folder as the metadata reader
\* gives it, or None
FolderDates ==
    [i \in 1..Len(folder.exif) |->
        IF CreateDateTag \in DOMAIN folder.exif[i]
        THEN folder.exif[i][CreateDateTag] ELSE None]

NullDate(raw) == raw = None \/ ~Parses(raw)

\* C24: validate_folder on a folder with images takes a creation date that
\* is absent or not in the format for null without raising ValueError; the
\* issues it returns hold missing_dates when an image has a null date and
\* no_dates when every image has; start and end come from the valid dates
\* only, start <= end.
C24_DateFlags ==
    (validated.called /\ JpegFiles(folder.files) # <<>>)
        => LET issues == Range(validated.result.issues)
               valid == {Strptime(FolderDates[i]) :
                            i \in {j \in 1..Len(FolderDates) : ~NullDate(FolderDates[j])}}
               data == validated.result.folder_data
           IN  /\ validated.result.raised # "ValueError"
               /\ validated.result.raised = "none"
                     => /\ (\E i \in 1..Len(FolderDates) : NullDate(FolderDates[i]))
                              => "missing_dates" \in issues
                        /\ (\A i \in 1..Len(FolderDates) : NullDate(FolderDates[i]))
                              => "no_dates" \in issues
                        /\ valid # {}
                              => /\ data[<<"start">>] \in valid
                                 /\ data[<<"end">>] \in valid
                                 /\ \A t \in valid :
                                       data[<<"start">>] <= t /\ t <= data[<<"end">>]

\* the keyword tag fields of one image
TagsOf(entry) ==
    IF KeywordsTag \in DOMAIN entry THEN DOMAIN ConvertKeywords(entry[KeywordsTag]).dict
    ELSE {}

\* the keyword tag fields observed in any image of a set
ObservedTags(exif) == UNION {TagsOf(exif[i]) : i \in 1..Len(exif)}

\* Every image of the set has every field wanted, and an observed keyword
\* field holds None exactly for the images without that tag.
Complete(exif, has(_, _), value(_, _), wanted) ==
    LET tags == [i \in 1..Len(exif) |-> TagsOf(exif[i])]
    IN  \A i \in 1..Len(exif) :
            /\ \A k \in wanted : has(i, k)
            /\ \A k \in UNION Range(tags) : (value(i, k) = None) <=> (k \notin tags[i])

ValidatedHas(i, k) ==
    /\ k \in DOMAIN validated.result.image_data
    /\ i \in DOMAIN validated.result.image_data[k]

ValidatedValue(i, k) == validated.result.image_data[k][i]

KeptTags == Range(ShortKeepTags) \ {<<"Keywords">>}

RECURSIVE SplitOn(_, _)
SplitOn(text, sep) ==
    IF \A i \in 1..Len(text) : text[i] # sep THEN <<text>>
    ELSE LET k == MinOf({i \in 1..Len(text) : text[i] = sep})
         IN  <<SubSeq(text, 1, k - 1)>> \o SplitOn(SubSeq(text, k + 1, Len(text)), sep)

\* the strings given: none for None, one for a single string
GivenKeywords ==
    IF converted.keywords = None THEN <<>>
    ELSE IF converted.keywords[1] = "str" THEN <<converted.keywords[2]>>
    ELSE converted.keywords[2]

\* the tag number of a string '<tag-number>: <value>' and its value, the
\* text after the first colon without the blanks around it
NumberOf(kw) == SubSeq(kw, 1, MinOf({i \in 1..Len(kw) : kw[i] = ":"}) - 1)
ValueOf(kw) == Strip(SubSeq(kw, MinOf({i \in 1..Len(kw) : kw[i] = ":"}) + 1, Len(kw)))

\* C26: _convert_keywords returns exactly one field Tag_<number> for each
\* tag number among the strings given (none for None, a single string
\* taken as a list of one), and that field split on ", " gives the set of
\* the trimmed values given for that number.
C26_KeywordUnpacking ==
    converted.called
        => /\ converted.result.raised = "none"
           /\ DOMAIN converted.result.dict
                 = {TagKey(NumberOf(GivenKeywords[i])) : i \in 1..Len(GivenKeywords)}
           /\ \A i \in 1..Len(GivenKeywords) :
                 Range(SplitOn(converted.result.dict[TagKey(NumberOf(GivenKeywords[i]))],
                               ", "))
                    = {ValueOf(GivenKeywords[j]) :
                          j \in {h \in 1..Len(GivenKeywords) :
                                    NumberOf(GivenKeywords[h]) = NumberOf(GivenKeywords[i])}}

\* the normalization step: every row looked up under the requested tag
\* names and keyed by their names without the group
Normalize(rows, tags) == [i \in 1..Len(rows) |-> SimplifyEntry(rows[i], tags)]

\* what the metadata reader returns for the images of the folder
FolderBatch == GetTagsBatch(Range(TargetTags), folder.exif)

\* C27 as stated: the normalization step of validate_folder applied to the
\* rows it has normalized returns the same rows.
C27_NormalizeTwice ==
    (validated.called /\ JpegFiles(folder.files) # <<>>)
        => LET normalized == Normalize(FolderBatch, TargetTags)
           IN  Normalize(normalized, TargetTags) = normalized

\* C27 as amended: the normalization step applied to the rows it has
\* normalized, with the names without the group as the requested tag names,
\* returns the same rows.
C27_NormalizeIdempotent ==
    (validated.called /\ JpegFiles(folder.files) # <<>>)
        => LET normalized == Normalize(FolderBatch, TargetTags)
               short_tags == [i \in 1..Len(TargetTags) |-> SubGroup(TargetTags[i])]
           IN  Normalize(normalized, short_tags) = normalized

\* a folder is normalized in which an image has a date and keywords
C27_Witness ==
    /\ validated.called
    /\ \E i \in 1..Len(folder.exif) :
          /\ SimplifyEntry(FolderBatch[i], TargetTags)[<<"CreateDate">>] # None
          /\ SimplifyEntry(FolderBatch[i], TargetTags)[<<"Keywords">>] # None

\* C28: extract_deployment_data raises the error 'Deployment path does not
\* exist or is not a directory' (an IOError) for every deployment path that
\* does not exist or is no directory, and writes no report file.
C28_PathCheck ==
    \A i \in 1..Len(extracted) :
        folder.kind # "dir"
            => /\ extracted[i].raised = "IOError"
               /\ ~extracted[i].written

\* the images of the folder whose sequence stays unknown (no sequence tag
\* and no sequence in the file name), and those without creation date tag
FolderLackingSequence ==
    LET jpeg_files == JpegFiles(folder.files)
        sequence == FolderSequence(jpeg_files,
                                   GetTagsBatch({CreateDateTag, SequenceTag}, folder.exif))
    IN  SelectIdx(jpeg_files, {i \in 1..Len(jpeg_files) : sequence[i] = None})

FolderLackingDate ==
    SelectIdx(JpegFiles(folder.files),
              {i \in 1..Len(folder.exif) : CreateDateTag \notin DOMAIN folder.exif[i]})

\* C29: when _process_folder raises the missing-sequence or the missing
\* creation date error, the count it reports is the number of JPEG images
\* lacking that tag and the names it reports are the names of those images
\* up to the report limit, whatever else the folder holds.
C29_MissingReport ==
    processed.called =>
    /\ processed.result.raised = "RuntimeError: files missing sequence number"
          => /\ processed.result.n_missing = Len(FolderLackingSequence)
             /\ processed.result.message = ReportMissing(FolderLackingSequence)
    /\ processed.result.raised = "RuntimeError: files missing creation date tag"
          => /\ processed.result.n_missing = Len(FolderLackingDate)
             /\ processed.result.message = ReportMissing(FolderLackingDate)

\* the rows of a written image table that carry the given Calib flag
RowsFlagged(report, calib_flag) ==
    {j \in 1..Len(report.rows) : report.rows[j][<<"Calib">>] = calib_flag}

\* C30: in every report that extract_deployment_data has written, n_images
\* is the number of table rows of images of the deployment directory itself
\* (Calib 0), n_calib the number of rows of images of its CALIB directory
\* (Calib 1), and the two add up to the number of rows of the table.
C30_HeaderCounts ==
    \A i \in 1..Len(extracted) :
        extracted[i].written
            => /\ extracted[i].n_images = Cardinality(RowsFlagged(extracted[i], 0))
               /\ extracted[i].n_images = Len(folder.exif)
               /\ extracted[i].n_calib = Cardinality(RowsFlagged(extracted[i], 1))
               /\ extracted[i].n_calib = Len(folder.calib.exif)
               /\ extracted[i].n_images + extracted[i].n_calib = Len(extracted[i].rows)

\* a report written for a deployment with images of its own and a
\* calibration image
C30_Witness ==
    \E i \in 1..Len(extracted) :
        /\ extracted[i].written
        /\ extracted[i].n_images > 0
        /\ extracted[i].n_calib > 0
        /\ Len(extracted[i].rows) > extracted[i].n_images

====
